---------------------------- MODULE Spec2Model ----------------------------
(***************************************************************************)
(* A model of the COBYLA driver of primapy (cobyla/cobyla.py): the sizes   *)
(* and preconditions of cobyla(), the reading of the bounds, get_lincon(), *)
(* the evaluation at the starting point and the call of the engine.        *)
(*                                                                         *)
(* Numbers are integers.  A floating point input that may be NaN is a      *)
(* record [nan, v]; an optional argument is a record [some, v].            *)
(***************************************************************************)
EXTENDS Integers, Sequences, FiniteSets, TLC

\* The scale of the bound sentinel in the model.
BoundScale == 20

\* The filter: the largest capacity, the objective and violation values and
\* the points of the candidates.
MaxFilt == 3

MaxValue == 2

NumPoints == 2

\* The main loop: the largest number of variables and the largest maxfun.
MaxVars == 2

MaxFunBound == 6

\* The scales of the defaults of the radii and of the machine epsilon.
RhoendScale == 1000

EpsScale == 1000

\* consts.BOUNDMAX (0.25*HUGE in the program), scaled.
BOUNDMAX == BoundScale

\* consts.REALMAX (HUGE in the program): BOUNDMAX = 0.25*REALMAX.
REALMAX == 4 * BOUNDMAX

\* An infinite value: beyond every finite one.
INF == REALMAX + 1

\* consts.FUNCMAX and consts.CONSTRMAX, scaled.
FUNCMAX == 2 * BOUNDMAX

CONSTRMAX == 2 * BOUNDMAX

---------------------------------------------------------------------------
\* Floating point values and optional arguments

Fl(n) == [nan |-> FALSE, v |-> n]

NaN == [nan |-> TRUE, v |-> 0]

\* np.isnan
isnan(a) == a.nan

\* np.isfinite
isfinite(a) == ~a.nan /\ a.v > -INF /\ a.v < INF

\* a > b and a < b of IEEE numbers: false when either is NaN.
Gt(a, b) == ~a.nan /\ ~b.nan /\ a.v > b.v

Lt(a, b) == ~a.nan /\ ~b.nan /\ a.v < b.v

Some(val) == [some |-> TRUE, v |-> val]

\* None, for an argument that is a vector or a matrix.
None == [some |-> FALSE, v |-> <<>>]

\* None, for an argument that is a scalar.
NoneNum == [some |-> FALSE, v |-> NaN]

\* present(x): x is not None.
present(a) == a.some

---------------------------------------------------------------------------
\* Linear algebra on sequences of integers

RECURSIVE SumSeq(_)
SumSeq(s) == IF s = <<>> THEN 0 ELSE Head(s) + SumSeq(Tail(s))

RECURSIVE MaxSeq(_)
MaxSeq(s) ==
  IF Len(s) = 1 THEN s[1]
  ELSE LET m == MaxSeq(Tail(s)) IN IF s[1] >= m THEN s[1] ELSE m

Abs(a) == IF a >= 0 THEN a ELSE -a

\* a @ x for one row a.
Dot(a, xx) == SumSeq([j \in 1..Len(a) |-> a[j] * xx[j]])

\* A @ x.
MatVec(A, xx) == [i \in 1..Len(A) |-> Dot(A[i], xx)]

NegVec(b) == [i \in 1..Len(b) |-> -b[i]]

NegMat(A) == [i \in 1..Len(A) |-> NegVec(A[i])]

SubVec(a, b) == [i \in 1..Len(a) |-> a[i] - b[i]]

\* A.shape[1] of a matrix with at least one row.
Cols(A) == Len(A[1])

\* np.eye(n)[i, :]
idrow(i, n) == [j \in 1..n |-> IF j = i THEN 1 ELSE 0]

\* The indices 1..n in order, as a sequence.
Iota(n) == [i \in 1..n |-> i]

\* np.where(xl > -BOUNDMAX)[0]
WhereAbove(xlv) == SelectSeq(Iota(Len(xlv)), LAMBDA i : Gt(xlv[i], Fl(-BOUNDMAX)))

\* np.where(xu < BOUNDMAX)[0]
WhereBelow(xuv) == SelectSeq(Iota(Len(xuv)), LAMBDA i : Lt(xuv[i], Fl(BOUNDMAX)))


---------------------------------------------------------------------------
\* The state

VARIABLES
  pc,         \* the position of the call of cobyla / get_lincon
  DEBUGGING,  \* consts.DEBUGGING
  x,          \* the starting point (a sequence of floating point values)
  xl, xu,     \* the caller's bound arrays (the objects cobyla receives)
  xl_in, xu_in, \* what the caller's arrays held when cobyla was called
  Aeq, beq, Aineq, bineq,
  f0, nlconstr0, m_nlcon,
  mmm,        \* the number of generalized constraints counted by cobyla
  amat, bvec, \* the wrapped linear constraints
  f, constr, cstrv, \* the values at the starting point
  ncalls,     \* the number of calls of calcfc so far
  xeval,      \* the points calcfc was called at, in order
  filt, maxfilt,               \* the filter of the engine
  nvar, lstate, nf, ntr, info, maxfun, lastStep, ratio, flags, \* the main loop
  radius, rhobeg, rhoend, eta1, eta2, gamma1, gamma2,
  kwargs,     \* the optional scalars the caller wrote in the call of cobyla
  params      \* cobyla's own rhobeg, rhoend, maxfun, eta1, eta2 and maxhist

driverVars == <<pc, DEBUGGING, x, xl, xu, xl_in, xu_in, Aeq, beq, Aineq, bineq,
                f0, nlconstr0, m_nlcon, mmm, amat, bvec, f, constr, cstrv,
                ncalls, xeval>>

filterVars == <<filt, maxfilt>>

loopVars == <<nvar, lstate, nf, ntr, info, maxfun, lastStep, ratio, flags,
              radius, rhobeg, rhoend, eta1, eta2, gamma1, gamma2>>

resolveVars == <<kwargs, params>>

vars == <<driverVars, filterVars, loopVars, resolveVars>>

---------------------------------------------------------------------------
\* get_lincon

\* The result of a call that raised an exception.
Raised == [err |-> TRUE, amat |-> None, bvec |-> None]

Returned(a, b) == [err |-> FALSE, amat |-> a, bvec |-> b]

\* The number of columns get_lincon works with; 0 when no argument is given.
lincon_num_vars(pAeq, pAineq, pxl, pxu) ==
  IF pAeq.some THEN Cols(pAeq.v)
  ELSE IF pAineq.some THEN Cols(pAineq.v)
  ELSE IF pxl.some THEN Len(pxl.v)
  ELSE IF pxu.some THEN Len(pxu.v)
  ELSE 0

\* The preconditions get_lincon asserts when DEBUGGING.
lincon_pre(pAeq, pAineq, pbeq, pbineq, pxl, pxu, n) ==
  /\ pAineq.some => (pbineq.some /\ Len(pAineq.v) = Len(pbineq.v) /\ Cols(pAineq.v) = n)
  /\ pAeq.some => (pbeq.some /\ Len(pAeq.v) = Len(pbeq.v) /\ Cols(pAeq.v) = n)
  /\ (pxl.some /\ pxu.some) => (Len(pxl.v) = n /\ Len(pxu.v) = n)

\* -idmat[ixl, :]
LowerRowsPlus(ixl, n) == [k \in 1..Len(ixl) |-> idrow(ixl[k], n)]

LowerRows(ixl, n) == [k \in 1..Len(ixl) |-> NegVec(idrow(ixl[k], n))]

\* idmat[ixu, :]
UpperRows(ixu, n) == [k \in 1..Len(ixu) |-> idrow(ixu[k], n)]

\* -xl[ixl]
LowerRhsPlus(pxl, ixl) == [k \in 1..Len(ixl) |-> pxl.v[ixl[k]].v]

LowerRhs(pxl, ixl) == [k \in 1..Len(ixl) |-> -(pxl.v[ixl[k]].v)]

\* xu[ixu]
UpperRhs(pxu, ixu) == [k \in 1..Len(ixu) |-> pxu.v[ixu[k]].v]

\* np.vstack of the five blocks.
StackRowsEqSwapped(ixl, ixu, pAeq, pAineq, n) ==
  (IF ixl.some THEN LowerRows(ixl.v, n) ELSE <<>>)
  \o (IF ixu.some THEN UpperRows(ixu.v, n) ELSE <<>>)
  \o (IF pAeq.some THEN pAeq.v ELSE <<>>)
  \o (IF pAeq.some THEN NegMat(pAeq.v) ELSE <<>>)
  \o (IF pAineq.some THEN pAineq.v ELSE <<>>)

StackRows(ixl, ixu, pAeq, pAineq, n) ==
  (IF ixl.some THEN LowerRows(ixl.v, n) ELSE <<>>)
  \o (IF ixu.some THEN UpperRows(ixu.v, n) ELSE <<>>)
  \o (IF pAeq.some THEN NegMat(pAeq.v) ELSE <<>>)
  \o (IF pAeq.some THEN pAeq.v ELSE <<>>)
  \o (IF pAineq.some THEN pAineq.v ELSE <<>>)

\* np.hstack of the five blocks.
StackRhs(ixl, ixu, pxl, pxu, pbeq, pbineq) ==
  (IF ixl.some THEN LowerRhs(pxl, ixl.v) ELSE <<>>)
  \o (IF ixu.some THEN UpperRhs(pxu, ixu.v) ELSE <<>>)
  \o (IF pbeq.some THEN NegVec(pbeq.v) ELSE <<>>)
  \o (IF pbeq.some THEN pbeq.v ELSE <<>>)
  \o (IF pbineq.some THEN pbineq.v ELSE <<>>)

\* get_lincon(Aeq, Aineq, beq, bineq, xl, xu) under the value dbg of DEBUGGING.
\* An index of ixl or ixu beyond num_vars raises IndexError; blocks of
\* different widths make np.vstack raise ValueError; the postcondition raises
\* when exactly one of amat and bvec is None or their sizes differ.
get_lincon(dbg, pAeq, pAineq, pbeq, pbineq, pxl, pxu) ==
  LET n == lincon_num_vars(pAeq, pAineq, pxl, pxu)
      ixl == IF pxl.some THEN Some(WhereAbove(pxl.v)) ELSE None
      ixu == IF pxu.some THEN Some(WhereBelow(pxu.v)) ELSE None
      rows == StackRows(ixl, ixu, pAeq, pAineq, n)
      rhs == StackRhs(ixl, ixu, pxl, pxu, pbeq, pbineq)
      a == IF Len(rows) > 0 THEN Some(rows) ELSE None
      b == IF Len(rhs) > 0 THEN Some(rhs) ELSE None
  IN
  IF ~pAeq.some /\ ~pAineq.some /\ ~pxl.some /\ ~pxu.some THEN Returned(None, None)
  ELSE IF dbg /\ ~lincon_pre(pAeq, pAineq, pbeq, pbineq, pxl, pxu, n) THEN Raised
  ELSE IF ixl.some /\ (\E k \in 1..Len(ixl.v) : ixl.v[k] > n) THEN Raised
  ELSE IF ixu.some /\ (\E k \in 1..Len(ixu.v) : ixu.v[k] > n) THEN Raised
  ELSE IF pAeq.some /\ Cols(pAeq.v) # n THEN Raised
  ELSE IF pAineq.some /\ Cols(pAineq.v) # n THEN Raised
  ELSE IF dbg /\ (a.some # b.some \/ (a.some /\ Len(a.v) # Len(b.v))) THEN Raised
  ELSE Returned(a, b)

---------------------------------------------------------------------------
\* The moderation of values and the evaluation (primapy.common.evaluate)

Clip(n, lo, hi) == IF n < lo THEN lo ELSE IF n > hi THEN hi ELSE n

\* moderatex: NaN becomes 0, the rest is clipped to [-REALMAX, REALMAX].
moderatex(xx) ==
  [i \in 1..Len(xx) |-> IF xx[i].nan THEN Fl(0) ELSE Fl(Clip(xx[i].v, -REALMAX, REALMAX))]

\* moderatef: NaN and values above FUNCMAX become FUNCMAX.
moderatef(a) == IF a.nan THEN FUNCMAX ELSE Clip(a.v, -REALMAX, FUNCMAX)

\* moderatec on floating point values: NaN becomes CONSTRMAX, the rest is clipped.
moderatec(c) ==
  [i \in 1..Len(c) |-> IF c[i].nan THEN CONSTRMAX ELSE Clip(c[i].v, -CONSTRMAX, CONSTRMAX)]

\* moderatec on values that are numbers already.
moderatecInt(c) == [i \in 1..Len(c) |-> Clip(c[i], -CONSTRMAX, CONSTRMAX)]

\* The numbers of a vector of floating point values without NaN.
Vals(xx) == [i \in 1..Len(xx) |-> xx[i].v]

\* a - b of two numpy vectors: equal lengths, or one of length 1 is broadcast.
CanSub(a, b) == Len(a) = Len(b) \/ Len(a) = 1 \/ Len(b) = 1

BroadcastSub(a, b) ==
  IF Len(a) = Len(b) THEN SubVec(a, b)
  ELSE IF Len(b) = 1 THEN [i \in 1..Len(a) |-> a[i] - b[1]]
  ELSE [i \in 1..Len(b) |-> a[1] - b[i]]

\* amat @ x - bvec can be computed: the widths agree and bvec is an array.
LinOk(a, b, xx) ==
  a.some => /\ \A i \in 1..Len(a.v) : Len(a.v[i]) = Len(xx)
            /\ b.some
            /\ CanSub(a.v, b.v)

\* amat @ x - bvec
LinPart(a, b, xx) == BroadcastSub(MatVec(a.v, Vals(xx)), b.v)

\* constr[:k] = val of numpy: val has k entries, or one entry that fills the slice.
CanAssign(k, val) == Len(val) = k \/ Len(val) = 1

AssignHead(k, val) == IF Len(val) = k THEN val ELSE [i \in 1..k |-> val[1]]

Zeros(k) == [i \in 1..k |-> 0]

\* The values calcfc may return.
CalcfcF == {NaN, Fl(2)}

CalcfcNl(m) == IF m = 0 THEN {<<>>} ELSE {[i \in 1..m |-> Fl(-1)], [i \in 1..m |-> NaN]}

---------------------------------------------------------------------------
\* cobyla

\* mineq, meq, mxl, mxu and mmm as cobyla counts them on entry.
mineq == IF present(bineq) THEN Len(bineq.v) ELSE 0

meq == IF present(beq) THEN Len(beq.v) ELSE 0

mxl == IF present(xl) THEN Len(WhereAbove(xl.v)) ELSE 0

mxu == IF present(xu) THEN Len(WhereBelow(xu.v)) ELSE 0

count_mmm == mxu + mxl + 2 * meq + mineq + m_nlcon

num_vars == Len(x)

\* The preconditions cobyla asserts when DEBUGGING.
debug_pre ==
  /\ m_nlcon >= 0
  /\ num_vars >= 1
  /\ present(Aineq) = present(bineq)
  /\ present(Aineq) => (Len(Aineq.v) = mineq /\ Cols(Aineq.v) = num_vars)
  /\ present(Aeq) = present(beq)
  /\ present(Aeq) => (Len(Aeq.v) = meq /\ Cols(Aeq.v) = num_vars)
  /\ present(xl) => Len(xl.v) = num_vars
  /\ present(xu) => Len(xu.v) = num_vars
  /\ present(nlconstr0) => present(f0)
  /\ present(f0) => (isnan(f0.v) \/ present(nlconstr0))

\* The check of the size of NLCONSTR0, made whatever DEBUGGING is.
size_pre == present(nlconstr0) => Len(nlconstr0.v) = m_nlcon

\* The checks that let the call go on.
Accepted == (DEBUGGING => debug_pre) /\ size_pre

\* Sizes and preconditions.
Validate ==
  /\ pc = "call"
  /\ mmm' = count_mmm
  /\ pc' = IF Accepted THEN "read" ELSE "rejected"
  /\ UNCHANGED <<resolveVars, DEBUGGING, x, xl, xu, xl_in, xu_in, Aeq, beq, Aineq, bineq, f0,
                 nlconstr0, m_nlcon, amat, bvec, f, constr, cstrv, ncalls, xeval,
                 filterVars, loopVars>>

\* xl[np.isnan(xl)] = -BOUNDMAX; xl[xl < -BOUNDMAX] = -BOUNDMAX
read_xl_nan_zero(b) ==
  IF b.some
  THEN Some([i \in 1..Len(b.v) |->
          IF isnan(b.v[i]) THEN Fl(0)
          ELSE IF Lt(b.v[i], Fl(-BOUNDMAX)) THEN Fl(-BOUNDMAX) ELSE b.v[i]])
  ELSE b

read_xl(b) ==
  IF b.some
  THEN Some([i \in 1..Len(b.v) |->
          IF isnan(b.v[i]) \/ Lt(b.v[i], Fl(-BOUNDMAX)) THEN Fl(-BOUNDMAX) ELSE b.v[i]])
  ELSE b

\* xu[np.isnan(xu)] = BOUNDMAX; xu[xu > BOUNDMAX] = BOUNDMAX
read_xu(b) ==
  IF b.some
  THEN Some([i \in 1..Len(b.v) |->
          IF isnan(b.v[i]) \/ Gt(b.v[i], Fl(BOUNDMAX)) THEN Fl(BOUNDMAX) ELSE b.v[i]])
  ELSE b

\* Read the inputs: the assignments are made in the arrays the caller passed.
ReadBounds ==
  /\ pc = "read"
  /\ xl' = read_xl(xl)
  /\ xu' = read_xu(xu)
  /\ pc' = "wrap"
  /\ UNCHANGED <<resolveVars, DEBUGGING, x, xl_in, xu_in, Aeq, beq, Aineq, bineq, f0, nlconstr0,
                 m_nlcon, mmm, amat, bvec, f, constr, cstrv, ncalls, xeval,
                 filterVars, loopVars>>

\* amat, bvec = get_lincon(Aeq, Aineq, beq, bineq, xl, xu)
WrapLincon ==
  /\ pc = "wrap"
  /\ LET r == get_lincon(DEBUGGING, Aeq, Aineq, beq, bineq, xl, xu) IN
       /\ amat' = r.amat
       /\ bvec' = r.bvec
       /\ pc' = IF r.err THEN "raised" ELSE "eval"
  /\ UNCHANGED <<resolveVars, DEBUGGING, x, xl, xu, xl_in, xu_in, Aeq, beq, Aineq, bineq, f0,
                 nlconstr0, m_nlcon, mmm, f, constr, cstrv, ncalls, xeval,
                 filterVars, loopVars>>

\* max(np.append(0, constr))
cstrv_of(c) == MaxSeq(<<0>> \o c)

\* The values at the starting point are taken from F0 and NLCONSTR0.
use_f0_ignoring_x == present(f0) /\ present(nlconstr0)

use_f0 == present(f0) /\ present(nlconstr0) /\ \A i \in 1..Len(x) : isfinite(x[i])

\* The branch that takes F0 and NLCONSTR0: no evaluation.
EvalFromF0 ==
  /\ pc = "eval"
  /\ use_f0
  /\ IF ~LinOk(amat, bvec, x)
        \/ (amat.some /\ ~CanAssign(mmm - m_nlcon, LinPart(amat, bvec, x)))
     THEN /\ pc' = "raised"
          /\ UNCHANGED <<f, constr, cstrv>>
     ELSE LET head == IF amat.some
                      THEN AssignHead(mmm - m_nlcon, moderatecInt(LinPart(amat, bvec, x)))
                      ELSE Zeros(mmm - m_nlcon)
              c == head \o moderatec(nlconstr0.v)
          IN /\ f' = moderatef(f0.v)
             /\ constr' = c
             /\ cstrv' = cstrv_of(c)
             /\ pc' = "resolve"
  /\ UNCHANGED <<resolveVars, DEBUGGING, x, xl, xu, xl_in, xu_in, Aeq, beq, Aineq, bineq, f0,
                 nlconstr0, m_nlcon, mmm, amat, bvec, ncalls, xeval,
                 filterVars, loopVars>>

\* The branch that evaluates: x = moderatex(x); f, constr = evaluate(calcfc, x, ...).
\* evaluate computes amat @ x - bvec and calls calcfc once; when the linear
\* part cannot be computed it raises, before or after the call.
EvalByCalcfc ==
  /\ pc = "eval"
  /\ ~use_f0
  /\ LET xm == moderatex(x) IN
     IF ~LinOk(amat, bvec, xm)
     THEN /\ pc' = "raised"
          /\ \E called \in BOOLEAN :
               /\ ncalls' = IF called THEN ncalls + 1 ELSE ncalls
               /\ xeval' = IF called THEN Append(xeval, xm) ELSE xeval
          /\ UNCHANGED <<f, constr, cstrv>>
     ELSE \E fv \in CalcfcF, nl \in CalcfcNl(m_nlcon) :
            LET lin == IF amat.some THEN LinPart(amat, bvec, xm) ELSE <<>>
                c == moderatecInt(lin) \o moderatec(nl)
            IN /\ ncalls' = ncalls + 1
               /\ xeval' = Append(xeval, xm)
               /\ f' = moderatef(fv)
               /\ constr' = c
               /\ cstrv' = cstrv_of(c)
               /\ pc' = "resolve"
  /\ UNCHANGED <<resolveVars, DEBUGGING, x, xl, xu, xl_in, xu_in, Aeq, beq, Aineq, bineq, f0,
                 nlconstr0, m_nlcon, mmm, amat, bvec,
                 filterVars, loopVars>>

\* preproc and the call of cobylb, after the parameters are resolved.
InvokeEngine ==
  /\ pc = "preproc"
  /\ pc' = "engine"
  /\ UNCHANGED <<resolveVars, DEBUGGING, x, xl, xu, xl_in, xu_in, Aeq, beq, Aineq, bineq, f0,
                 nlconstr0, m_nlcon, mmm, amat, bvec, f, constr, cstrv, ncalls, xeval,
                 filterVars, loopVars>>

\* return COBYLAResult(...)
Return ==
  /\ pc = "engine"
  /\ pc' = "done"
  /\ UNCHANGED <<resolveVars, DEBUGGING, x, xl, xu, xl_in, xu_in, Aeq, beq, Aineq, bineq, f0,
                 nlconstr0, m_nlcon, mmm, amat, bvec, f, constr, cstrv, ncalls, xeval,
                 filterVars, loopVars>>

---------------------------------------------------------------------------
\* The filter of the engine: a sequence of entries [x, f, cstrv], oldest first

\* A dominates B: no worse in both, better in one.
Dominates(A, B) == A.f <= B.f /\ A.cstrv <= B.cstrv /\ (A.f < B.f \/ A.cstrv < B.cstrv)

\* The position of the entry to evict: the highest violation, the oldest of those.
Worst(s) ==
  CHOOSE i \in 1..Len(s) :
    /\ \A j \in 1..Len(s) : s[j].cstrv <= s[i].cstrv
    /\ \A j \in 1..(i - 1) : s[j].cstrv < s[i].cstrv

RemoveAt(s, i) == [j \in 1..(Len(s) - 1) |-> IF j < i THEN s[j] ELSE s[j + 1]]

\* The entries of s that e does not dominate.
SurvivorsKeepAll(s, e) == s

Survivors(s, e) == SelectSeq(s, LAMBDA o : ~Dominates(e, o))

\* The capacity rule: evict while more than cap entries are held.
Evict(s, cap) == IF Len(s) > cap THEN RemoveAt(s, Worst(s)) ELSE s

\* insert(point, f, cstrv)
insert(s, e, cap) ==
  IF \E i \in 1..Len(s) : Dominates(s[i], e) THEN s
  ELSE Evict(Append(Survivors(s, e), e), cap)

FilterInsert ==
  \E e \in [x : 1..NumPoints, f : 0..MaxValue, cstrv : 0..MaxValue] :
    /\ filt' = insert(filt, e, maxfilt)
    /\ UNCHANGED <<resolveVars, maxfilt, driverVars, loopVars>>

---------------------------------------------------------------------------
\* Rational numbers <<numerator, denominator>>, the denominator positive

RECURSIVE Gcd(_, _)
Gcd(a, b) == IF b = 0 THEN a ELSE Gcd(b, a % b)

Rat(a, b) == LET g == Gcd(Abs(a), b) IN <<a \div g, b \div g>>

RMul(p, q) == Rat(p[1] * q[1], p[2] * q[2])

RLt(p, q) == p[1] * q[2] < q[1] * p[2]

RLe(p, q) == p[1] * q[2] <= q[1] * p[2]

RMin(p, q) == IF RLe(p, q) THEN p ELSE q

---------------------------------------------------------------------------
\* The trust region radius and the main loop of the engine

\* The RadiusController rule; a geometry step never enlarges the radius.
GrowUncapped(r, g2, rb) == RMul(r, g2)

Grow(r, g2, rb) == RMin(RMul(r, g2), rb)

NextRadius(r, rt, step) ==
  IF RLt(rt, eta1) THEN RMul(r, gamma1)
  ELSE IF RLt(eta2, rt) /\ step = "tr" THEN Grow(r, gamma2, rhobeg)
  ELSE r

\* The exit code CHECK_TERMINATION finds, the first match winning; "" for none.
ExitCodeMaxfunLate ==
  IF RLe(radius, rhoend) /\ "noreduce" \in flags THEN "SMALL_TR_RADIUS"
  ELSE IF "ftarget" \in flags THEN "FTARGET_ACHIEVED"
  ELSE IF nf > maxfun THEN "MAXFUN_REACHED"
  ELSE IF ntr >= 2 * maxfun THEN "MAXTR_REACHED"
  ELSE IF "nanx" \in flags THEN "NAN_INF_X"
  ELSE IF "rounding" \in flags THEN "DAMAGING_ROUNDING"
  ELSE IF "stop" \in flags THEN "CALLBACK_TERMINATE"
  ELSE ""

ExitCode ==
  IF RLe(radius, rhoend) /\ "noreduce" \in flags THEN "SMALL_TR_RADIUS"
  ELSE IF "ftarget" \in flags THEN "FTARGET_ACHIEVED"
  ELSE IF nf >= maxfun THEN "MAXFUN_REACHED"
  ELSE IF ntr >= 2 * maxfun THEN "MAXTR_REACHED"
  ELSE IF "nanx" \in flags THEN "NAN_INF_X"
  ELSE IF "rounding" \in flags THEN "DAMAGING_ROUNDING"
  ELSE IF "stop" \in flags THEN "CALLBACK_TERMINATE"
  ELSE ""

\* The reduction ratios a step may have, and what an iteration may observe:
\* no further reduction possible, the target reached, NaN/Inf in the candidate,
\* damaging rounding, the callback asking to stop.
Ratios == {<<-1, 1>>, <<1, 5>>, <<1, 1>>}

FlagSets == {{}, {"noreduce"}, {"ftarget"}, {"nanx"}, {"rounding"}, {"stop"},
             {"noreduce", "ftarget"}, {"nanx", "rounding"}}

loopParams == <<nvar, maxfun, rhobeg, rhoend, eta1, eta2, gamma1, gamma2>>

\* INIT: the n+1 vertices are evaluated, one evaluation each.
InitVertex ==
  /\ lstate = "INIT"
  /\ nf' = nf + 1
  /\ lstate' = IF nf + 1 = nvar + 1 THEN "ITERATE" ELSE "INIT"
  /\ UNCHANGED <<resolveVars, ntr, info, lastStep, ratio, flags, radius, loopParams,
                 driverVars, filterVars>>

\* ITERATE -> TR_STEP: one evaluation, one trust region iteration.
TrStep ==
  /\ lstate = "ITERATE"
  /\ lstate' = "TR_STEP"
  /\ nf' = nf + 1
  /\ ntr' = ntr + 1
  /\ lastStep' = "tr"
  /\ UNCHANGED <<resolveVars, info, ratio, flags, radius, loopParams, driverVars, filterVars>>

\* ITERATE -> GEOMETRY_STEP: one evaluation, one trust region iteration.
GeometryStep ==
  /\ lstate = "ITERATE"
  /\ lstate' = "GEOMETRY_STEP"
  /\ nf' = nf + 1
  /\ ntr' = ntr + 1
  /\ lastStep' = "geo"
  /\ UNCHANGED <<resolveVars, info, ratio, flags, radius, loopParams, driverVars, filterVars>>

\* JUDGE: the reduction ratio of the step and what the iteration observed.
Judge ==
  /\ lstate \in {"TR_STEP", "GEOMETRY_STEP"}
  /\ lstate' = "JUDGE"
  /\ ratio' \in Ratios
  /\ flags' \in FlagSets
  /\ UNCHANGED <<resolveVars, nf, ntr, info, lastStep, radius, loopParams, driverVars, filterVars>>

\* UPDATE_RADIUS
UpdateRadius ==
  /\ lstate = "JUDGE"
  /\ lstate' = "UPDATE_RADIUS"
  /\ radius' = NextRadius(radius, ratio, lastStep)
  /\ UNCHANGED <<resolveVars, nf, ntr, info, lastStep, ratio, flags, loopParams, driverVars,
                 filterVars>>

\* RECORD
Record ==
  /\ lstate = "UPDATE_RADIUS"
  /\ lstate' = "RECORD"
  /\ UNCHANGED <<resolveVars, nf, ntr, info, lastStep, ratio, flags, radius, loopParams,
                 driverVars, filterVars>>

\* CHECK_TERMINATION
CheckTermination ==
  /\ lstate = "RECORD"
  /\ info' = ExitCode
  /\ lstate' = IF ExitCode = "" THEN "ITERATE" ELSE "TERMINATED"
  /\ UNCHANGED <<resolveVars, nf, ntr, lastStep, ratio, flags, radius, loopParams, driverVars,
                 filterVars>>

---------------------------------------------------------------------------
\* The optional scalars of cobyla and their defaults

\* A real value: a rational <<n, d>>, d = 0 for +inf, or NaN.
Real(q) == [nan |-> FALSE, v |-> q]

RealNaN == [nan |-> TRUE, v |-> <<0, 1>>]

\* None, for an argument that is a real or an integer.
NoneReal == [some |-> FALSE, v |-> RealNaN]

NoneInt == [some |-> FALSE, v |-> 0]

\* np.isfinite of a real
isfiniteReal(a) == ~a.nan /\ a.v[2] # 0

\* a > 0 and a < 1 of IEEE numbers: false of NaN.
Positive(a) == ~a.nan /\ RLt(<<0, 1>>, a.v)

BelowOne(a) == ~a.nan /\ RLt(a.v, <<1, 1>>)

RAdd(p, q) == Rat(p[1] * q[2] + q[1] * p[2], p[2] * q[2])

RDiv(p, q) == Rat(p[1] * q[2], p[2] * q[1])

\* max(p, q) of Python: q when q > p, else p.
RMax(p, q) == IF RLt(p, q) THEN q ELSE p

Max3(a, b, c) ==
  LET ab == IF b > a THEN b ELSE a IN IF c > ab THEN c ELSE ab

\* consts.RHOBEG_DEFAULT
RHOBEG_DEFAULT == <<1, 1>>

\* consts.RHOEND_DEFAULT (10^-6 in the program), scaled.
RHOEND_DEFAULT == <<1, RhoendScale>>

\* consts.EPS (the machine epsilon in the program), scaled: as in the program,
\* 0 < EPS < RHOEND_DEFAULT < RHOBEG_DEFAULT.
EPS == <<1, RhoendScale * EpsScale>>

\* consts.MAXFUN_DIM_DEFAULT
MAXFUN_DIM_DEFAULT == 500

\* The defaults in the signature of cobyla.
Signature ==
  [rhobeg |-> NoneReal, rhoend |-> NoneReal, maxfun |-> NoneInt,
   eta1 |-> Some(Real(<<1, 10>>)), eta2 |-> Some(Real(<<7, 10>>)),
   maxhist |-> NoneInt]

\* The parameters of cobyla on entry: what the caller wrote, and the default of
\* the signature for the rest.
Bind(kw) ==
  [a \in DOMAIN Signature |-> IF a \in DOMAIN kw THEN kw[a] ELSE Signature[a]]

\* resolve_rhobeg with min in place of max.
resolve_rhobeg_min(p) ==
  IF present(p.rhobeg) THEN p.rhobeg.v
  ELSE IF present(p.rhoend) /\ isfiniteReal(p.rhoend.v) /\ Positive(p.rhoend.v)
    THEN Real(RMin(RMul(<<10, 1>>, p.rhoend.v.v), RHOBEG_DEFAULT))
  ELSE Real(RHOBEG_DEFAULT)

\* if present(rhobeg) ... elif present(rhoend) and ... else ...
resolve_rhobeg(p) ==
  IF present(p.rhobeg) THEN p.rhobeg.v
  ELSE IF present(p.rhoend) /\ isfiniteReal(p.rhoend.v) /\ Positive(p.rhoend.v)
    THEN Real(RMax(RMul(<<10, 1>>, p.rhoend.v.v), RHOBEG_DEFAULT))
  ELSE Real(RHOBEG_DEFAULT)

\* if present(rhoend) ... elif rhobeg > 0 ... else ..., rb the resolved rhobeg
resolve_rhoend(p, rb) ==
  IF present(p.rhoend) THEN p.rhoend.v
  ELSE IF Positive(rb)
    THEN Real(RMax(EPS, RMin(RMul(RDiv(RHOEND_DEFAULT, RHOBEG_DEFAULT), rb.v),
                             RHOEND_DEFAULT)))
  ELSE Real(RHOEND_DEFAULT)

\* maxfun = maxfun if present(maxfun) else MAXFUN_DIM_DEFAULT * num_vars
resolve_maxfun(p) ==
  IF present(p.maxfun) THEN p.maxfun.v ELSE MAXFUN_DIM_DEFAULT * num_vars

\* if present(eta1) ... elif present(eta2) and 0 < eta2 < 1 ... else ...
resolve_eta1(p) ==
  IF present(p.eta1) THEN p.eta1.v
  ELSE IF present(p.eta2) /\ Positive(p.eta2.v) /\ BelowOne(p.eta2.v)
    THEN Real(RMax(EPS, RDiv(p.eta2.v.v, <<7, 1>>)))
  ELSE Real(<<1, 10>>)

\* if present(eta2) ... elif 0 < eta1 < 1 ... else ..., e1 the resolved eta1
resolve_eta2(p, e1) ==
  IF present(p.eta2) THEN p.eta2.v
  ELSE IF Positive(e1) /\ BelowOne(e1)
    THEN Real(RDiv(RAdd(e1.v, <<2, 1>>), <<3, 1>>))
  ELSE Real(<<7, 10>>)

\* maxhist if present(maxhist) else max(maxfun, num_vars + 2, ...), mf the
\* resolved maxfun
resolve_maxhist(p, mf) ==
  IF present(p.maxhist) THEN p.maxhist.v
  ELSE Max3(mf, num_vars + 2, MAXFUN_DIM_DEFAULT * num_vars)

\* The parameters after the defaults are resolved, all of them present.
resolve(p) ==
  LET rb == resolve_rhobeg(p)
      re == resolve_rhoend(p, rb)
      mf == resolve_maxfun(p)
      e1 == resolve_eta1(p)
      e2 == resolve_eta2(p, e1)
  IN  [rhobeg |-> Some(rb), rhoend |-> Some(re), maxfun |-> Some(mf),
       eta1 |-> Some(e1), eta2 |-> Some(e2),
       maxhist |-> Some(resolve_maxhist(p, mf))]

\* The resolution of the defaults, from the evaluation at the starting point up
\* to the call of preproc.
ResolveDefaults ==
  /\ pc = "resolve"
  /\ params' = resolve(params)
  /\ pc' = "preproc"
  /\ UNCHANGED <<kwargs, DEBUGGING, x, xl, xu, xl_in, xu_in, Aeq, beq, Aineq,
                 bineq, f0, nlconstr0, m_nlcon, mmm, amat, bvec, f, constr, cstrv,
                 ncalls, xeval, filterVars, loopVars>>

---------------------------------------------------------------------------
\* The specifications

DriverIdle ==
  /\ pc = "idle" /\ DEBUGGING = FALSE /\ x = <<>>
  /\ xl = None /\ xu = None /\ xl_in = None /\ xu_in = None
  /\ Aeq = None /\ beq = None /\ Aineq = None /\ bineq = None
  /\ f0 = NoneNum /\ nlconstr0 = None /\ m_nlcon = 0
  /\ mmm = 0 /\ amat = None /\ bvec = None
  /\ f = 0 /\ constr = <<>> /\ cstrv = 0 /\ ncalls = 0 /\ xeval = <<>>

FilterIdle == filt = <<>> /\ maxfilt = 0

LoopIdle ==
  /\ nvar = 1 /\ lstate = "idle" /\ nf = 0 /\ ntr = 0 /\ info = "" /\ maxfun = 3
  /\ lastStep = "none" /\ ratio = <<0, 1>> /\ flags = {}
  /\ radius = <<1, 1>> /\ rhobeg = <<1, 1>> /\ rhoend = <<1, 1>>
  /\ eta1 = <<1, 10>> /\ eta2 = <<7, 10>> /\ gamma1 = <<1, 2>> /\ gamma2 = <<2, 1>>

\* A call that writes none of the optional scalars.
NoKwargs == [a \in {} |-> NoneInt]

ParamsIdle == kwargs = NoKwargs /\ params = Bind(kwargs)

\* The bound arrays get_lincon is called with.
LowerEntries == {NaN, Fl(-BOUNDMAX - 1), Fl(-BOUNDMAX), Fl(-1), Fl(0)}

UpperEntries == {NaN, Fl(BOUNDMAX + 1), Fl(BOUNDMAX), Fl(1), Fl(14)}

LinconXl == {None} \cup {Some(<<a, b>>) : a \in LowerEntries, b \in LowerEntries}

LinconXu ==
  {None, Some(<<Fl(13), Fl(14)>>)}
    \cup {Some(<<a, b>>) : a \in UpperEntries, b \in UpperEntries}

\* The equality and inequality constraints, as pairs <<A, b>>.
EqPairs ==
  {<<None, None>>,
   <<Some(<<(<<1, 2>>), (<<3, 4>>)>>), Some(<<9, 10>>)>>,
   <<Some(<<(<<1, -1>>)>>), Some(<<0>>)>>}

IneqPairs ==
  {<<None, None>>,
   <<Some(<<(<<5, 6>>), (<<7, 8>>)>>), Some(<<11, 12>>)>>,
   <<Some(<<(<<1, 1>>)>>), Some(<<1>>)>>}

\* get_lincon called on its own, with arguments of the right shapes.
InitLincon ==
  /\ pc = "lincon"
  /\ DEBUGGING \in BOOLEAN
  /\ x = <<>>
  /\ xl \in LinconXl /\ xl_in = xl
  /\ xu \in LinconXu /\ xu_in = xu
  /\ \E e \in EqPairs : Aeq = e[1] /\ beq = e[2]
  /\ \E e \in IneqPairs : Aineq = e[1] /\ bineq = e[2]
  /\ f0 = NoneNum /\ nlconstr0 = None /\ m_nlcon = 0
  /\ mmm = 0 /\ amat = None /\ bvec = None
  /\ f = 0 /\ constr = <<>> /\ cstrv = 0 /\ ncalls = 0 /\ xeval = <<>>
  /\ FilterIdle /\ LoopIdle /\ ParamsIdle

CallGetLincon ==
  /\ pc = "lincon"
  /\ LET r == get_lincon(DEBUGGING, Aeq, Aineq, beq, bineq, xl, xu) IN
       /\ amat' = r.amat
       /\ bvec' = r.bvec
       /\ pc' = IF r.err THEN "lincon_raised" ELSE "lincon_returned"
  /\ UNCHANGED <<resolveVars, DEBUGGING, x, xl, xu, xl_in, xu_in, Aeq, beq, Aineq, bineq, f0,
                 nlconstr0, m_nlcon, mmm, f, constr, cstrv, ncalls, xeval,
                 filterVars, loopVars>>

SpecLincon == InitLincon /\ [][CallGetLincon]_vars

\* The arguments cobyla is called with, the malformed ones included.
CobylaX == {<<Fl(1), Fl(0)>>, <<NaN, Fl(0)>>, <<Fl(INF), Fl(1)>>}

CobylaXl ==
  {None, Some(<<Fl(0), Fl(-1)>>), Some(<<NaN, Fl(-1)>>),
   Some(<<Fl(-BOUNDMAX - 1), Fl(-BOUNDMAX)>>),
   Some(<<Fl(0)>>), Some(<<Fl(0), Fl(0), Fl(0)>>)}

CobylaXu ==
  {None, Some(<<Fl(13), Fl(14)>>), Some(<<Fl(1), NaN>>),
   Some(<<Fl(BOUNDMAX + 1), Fl(BOUNDMAX)>>),
   Some(<<Fl(1), Fl(1), Fl(BOUNDMAX)>>)}

CobylaEq ==
  {<<None, None>>,
   <<Some(<<(<<1, -1>>)>>), Some(<<0>>)>>,
   <<Some(<<(<<1, -1>>)>>), None>>}

CobylaIneq ==
  {<<None, None>>,
   <<Some(<<(<<5, 6>>), (<<7, 8>>)>>), Some(<<11, 12>>)>>,
   <<None, Some(<<1>>)>>,
   <<Some(<<(<<1, 1>>)>>), Some(<<1, 2>>)>>}

\* m_nlcon, f0 and nlconstr0, as triples.
CobylaStart ==
  {<<0, NoneNum, None>>, <<1, NoneNum, None>>,
   <<0, Some(NaN), None>>, <<1, Some(Fl(3)), None>>,
   <<0, Some(Fl(3)), Some(<<>>)>>, <<1, Some(Fl(3)), Some(<<Fl(2)>>)>>,
   <<1, Some(NaN), Some(<<NaN>>)>>, <<1, Some(Fl(FUNCMAX + 1)), Some(<<Fl(-CONSTRMAX - 1)>>)>>,
   <<1, NoneNum, Some(<<Fl(2)>>)>>,
   <<0, Some(Fl(3)), Some(<<Fl(2)>>)>>, <<1, Some(Fl(3)), Some(<<>>)>>}

Init ==
  /\ pc = "call"
  /\ DEBUGGING \in BOOLEAN
  /\ x \in CobylaX
  /\ xl \in CobylaXl /\ xl_in = xl
  /\ xu \in CobylaXu /\ xu_in = xu
  /\ \E e \in CobylaEq : Aeq = e[1] /\ beq = e[2]
  /\ \E e \in CobylaIneq : Aineq = e[1] /\ bineq = e[2]
  /\ \E t \in CobylaStart : m_nlcon = t[1] /\ f0 = t[2] /\ nlconstr0 = t[3]
  /\ mmm = 0 /\ amat = None /\ bvec = None
  /\ f = 0 /\ constr = <<>> /\ cstrv = 0 /\ ncalls = 0 /\ xeval = <<>>
  /\ FilterIdle /\ LoopIdle /\ ParamsIdle

Next ==
  Validate \/ ReadBounds \/ WrapLincon \/ EvalFromF0 \/ EvalByCalcfc
    \/ ResolveDefaults \/ InvokeEngine \/ Return

Spec == Init /\ [][Next]_vars

\* The values the caller writes for rhobeg and rhoend: ordinary ones, one below
\* EPS, and invalid ones.
RhoValues ==
  {Real(<<1, 2>>), Real(<<3, 1>>), Real(<<1, 2 * RhoendScale * EpsScale>>),
   Real(<<0, 1>>), Real(<<-1, 1>>), RealNaN, Real(<<1, 0>>)}

\* The values the caller writes for eta1 and eta2, None included.
EtaArgs ==
  {Some(Real(<<1, 20>>)), Some(Real(<<1, 2>>)), Some(Real(<<9, 10>>)),
   Some(Real(<<0, 1>>)), Some(Real(<<1, 1>>)), Some(RealNaN), NoneReal}

MaxfunArgs == {Some(1), Some(10), Some(2000), NoneInt}

MaxhistArgs == {Some(0), Some(5)}

\* The calls: each writes some of rhobeg and rhoend, or of eta1 and eta2, or of
\* maxfun and maxhist.
RhoCalls ==
  {[rhobeg |-> Some(v)] : v \in RhoValues}
    \cup {[rhoend |-> Some(v)] : v \in RhoValues}
    \cup {[rhobeg |-> Some(v), rhoend |-> Some(w)] : v \in RhoValues, w \in RhoValues}

EtaCalls ==
  {[eta1 |-> v] : v \in EtaArgs}
    \cup {[eta2 |-> v] : v \in EtaArgs}
    \cup {[eta1 |-> v, eta2 |-> w] : v \in EtaArgs, w \in EtaArgs}

MaxCalls ==
  {[maxfun |-> v] : v \in MaxfunArgs}
    \cup {[maxhist |-> v] : v \in MaxhistArgs}
    \cup {[maxfun |-> v, maxhist |-> w] : v \in MaxfunArgs, w \in MaxhistArgs}

Calls == {NoKwargs} \cup RhoCalls \cup EtaCalls \cup MaxCalls

\* cobyla called with well-formed problems of 1..MaxVars variables and with
\* the optional scalars of Calls.
InitResolve ==
  /\ pc = "call"
  /\ DEBUGGING \in BOOLEAN
  /\ x \in {[i \in 1..n |-> Fl(1)] : n \in 1..MaxVars}
  /\ xl = None /\ xu = None /\ xl_in = None /\ xu_in = None
  /\ Aeq = None /\ beq = None /\ Aineq = None /\ bineq = None
  /\ m_nlcon = 0
  /\ \E t \in {<<NoneNum, None>>, <<Some(Fl(3)), Some(<<>>)>>} :
       f0 = t[1] /\ nlconstr0 = t[2]
  /\ mmm = 0 /\ amat = None /\ bvec = None
  /\ f = 0 /\ constr = <<>> /\ cstrv = 0 /\ ncalls = 0 /\ xeval = <<>>
  /\ FilterIdle /\ LoopIdle
  /\ kwargs \in Calls /\ params = Bind(kwargs)

SpecResolve == InitResolve /\ [][Next]_vars

\* The filter on its own.
InitFilter == DriverIdle /\ LoopIdle /\ ParamsIdle /\ filt = <<>> /\ maxfilt \in 0..MaxFilt

SpecFilter == InitFilter /\ [][FilterInsert]_vars

\* The engine's loop on its own, for resolved parameters that meet the input
\* contract: maxfun >= n + 2, rhobeg >= rhoend > 0, 0 < eta1 <= eta2 < 1,
\* 0 < gamma1 < 1 < gamma2.
InitLoop ==
  /\ DriverIdle /\ FilterIdle /\ ParamsIdle
  /\ nvar \in 1..MaxVars
  /\ maxfun \in (nvar + 2)..MaxFunBound
  /\ rhobeg \in {<<1, 1>>, <<2, 1>>}
  /\ rhoend \in {<<1, 4>>, <<1, 1>>}
  /\ RLe(rhoend, rhobeg)
  /\ \E e \in {<<(<<1, 10>>), (<<7, 10>>)>>, <<(<<1, 4>>), (<<1, 4>>)>>} :
       eta1 = e[1] /\ eta2 = e[2]
  /\ gamma1 \in {<<1, 2>>, <<1, 4>>}
  /\ gamma2 \in {<<2, 1>>, <<4, 1>>}
  /\ radius = rhobeg
  /\ lstate = "INIT" /\ nf = 0 /\ ntr = 0 /\ info = ""
  /\ lastStep = "none" /\ ratio = <<0, 1>> /\ flags = {}

Loop ==
  InitVertex \/ TrStep \/ GeometryStep \/ Judge \/ UpdateRadius \/ Record
    \/ CheckTermination

SpecLoop == InitLoop /\ [][Loop]_vars

---------------------------------------------------------------------------
\* Properties of get_lincon (under SpecLincon)

\* The points the linear systems are compared at.
Coords == {-BOUNDMAX - 1, -1, 0, 1, 3, 14, BOUNDMAX + 1}

Points == {<<a, b>> : a \in Coords, b \in Coords}

\* The elements of a set of numbers, in increasing order.
RECURSIVE Ascending(_)
Ascending(S) ==
  IF S = {} THEN <<>>
  ELSE LET m == CHOOSE k \in S : \A j \in S : k <= j
       IN <<m>> \o Ascending(S \ {m})

RowsOf(a) == IF a.some THEN a.v ELSE <<>>

\* The indices of the bounds that are not trivial.
LowerIdxOf(b) == IF b.some THEN {i \in 1..Len(b.v) : Gt(b.v[i], Fl(-BOUNDMAX))} ELSE {}

UpperIdxOf(b) == IF b.some THEN {i \in 1..Len(b.v) : Lt(b.v[i], Fl(BOUNDMAX))} ELSE {}

LowerIdx == LowerIdxOf(xl)

UpperIdx == UpperIdxOf(xu)

\* The number of columns of the constraints that are given.
Width == lincon_num_vars(Aeq, Aineq, xl, xu)

\* p satisfies amat.p <= bvec.
SatisfiesWrapped(p) ==
  \A i \in 1..Len(RowsOf(amat)) : Dot(amat.v[i], p) <= bvec.v[i]

\* p satisfies the bounds that are not trivial, Aeq.p = beq and Aineq.p <= bineq.
SatisfiesOriginal(p) ==
  /\ \A i \in LowerIdx : xl.v[i].v <= p[i]
  /\ \A i \in UpperIdx : p[i] <= xu.v[i].v
  /\ Aeq.some => \A i \in 1..Len(Aeq.v) : Dot(Aeq.v[i], p) = beq.v[i]
  /\ Aineq.some => \A i \in 1..Len(Aineq.v) : Dot(Aineq.v[i], p) <= bineq.v[i]

NothingGiven == ~Aeq.some /\ ~Aineq.some /\ ~xl.some /\ ~xu.some

BoundRows(sign) ==
  LET lo == Ascending(LowerIdx)
      up == Ascending(UpperIdx)
  IN [k \in 1..Len(lo) |-> [j \in 1..Width |-> IF j = lo[k] THEN sign ELSE 0]]
     \o [k \in 1..Len(up) |-> [j \in 1..Width |-> IF j = up[k] THEN 1 ELSE 0]]

BoundRhs(sign) ==
  LET lo == Ascending(LowerIdx)
      up == Ascending(UpperIdx)
  IN [k \in 1..Len(lo) |-> sign * xl.v[lo[k]].v] \o [k \in 1..Len(up) |-> xu.v[up[k]].v]

LinearRows == NegMat(RowsOf(Aeq)) \o RowsOf(Aeq) \o RowsOf(Aineq)

LinearRhs == NegVec(RowsOf(beq)) \o RowsOf(beq) \o RowsOf(bineq)

---------------------------------------------------------------------------
\* Properties of cobyla (under Spec)

\* The shapes and sizes of the arguments are not what cobyla documents.
Malformed ==
  \/ Aineq.some # bineq.some
  \/ Aineq.some /\ bineq.some
       /\ ~(Len(Aineq.v) = Len(bineq.v) /\ Cols(Aineq.v) = Len(x))
  \/ Aeq.some # beq.some
  \/ Aeq.some /\ beq.some /\ ~(Len(Aeq.v) = Len(beq.v) /\ Cols(Aeq.v) = Len(x))
  \/ xl_in.some /\ Len(xl_in.v) # Len(x)
  \/ xu_in.some /\ Len(xu_in.v) # Len(x)
  \/ nlconstr0.some /\ Len(nlconstr0.v) # m_nlcon

\* The call got past the evaluation at the starting point.
Evaluated == pc \in {"resolve", "engine", "done"}

\* C3 as stated: the arrays the caller passed as xl and xu hold, during and
\* after the call, what they held when cobyla was called.
C3_BoundsNotMutated == xl = xl_in /\ xu = xu_in

\* C4 as stated: a call with malformed shapes or sizes never evaluates calcfc
\* and never gets to the call of the engine, whatever DEBUGGING is.
C4_MalformedRejected ==
  Malformed =>
    /\ pc \notin {"engine", "done"}
    /\ pc # "raised" => ncalls = 0

\* The last k entries and the entries before them.
LastK(c, k) == SubSeq(c, Len(c) - k + 1, Len(c))

ButLastK(c, k) == SubSeq(c, 1, Len(c) - k)

\* C5: when f0 and nlconstr0 are both given and x is finite, the engine is
\* reached without any call of calcfc, with f the moderated f0 (FUNCMAX for a
\* NaN), the last m_nlcon entries of constr the moderated nlconstr0 and the
\* entries before them the moderated amat.x - bvec; in every other case
\* calcfc has been called exactly once, at the moderated x.  No call of
\* calcfc is made before that point of the call.
C5_StartEvaluation ==
  /\ pc \in {"call", "read", "wrap", "eval", "rejected"} => ncalls = 0
  /\ (Evaluated /\ ~Malformed) =>
       IF present(f0) /\ present(nlconstr0) /\ \A i \in 1..Len(x) : isfinite(x[i])
       THEN /\ ncalls = 0
            /\ xeval = <<>>
            /\ f = (IF isnan(f0.v) THEN FUNCMAX ELSE Clip(f0.v.v, -REALMAX, FUNCMAX))
            /\ LastK(constr, m_nlcon) = moderatec(nlconstr0.v)
            /\ ButLastK(constr, m_nlcon)
                 = (IF amat.some
                    THEN moderatecInt(SubVec(MatVec(amat.v, Vals(x)), bvec.v))
                    ELSE <<>>)
       ELSE /\ ncalls = 1
            /\ xeval = <<moderatex(x)>>
            /\ \A i \in 1..Len(x) : isfinite(xeval[1][i])

\* The engine is reached from a NaN f0 without any evaluation.
C5_Witness ==
  /\ pc = "engine" /\ ~Malformed
  /\ present(f0) /\ isnan(f0.v) /\ present(nlconstr0) /\ amat.some
  /\ ncalls = 0 /\ f = FUNCMAX

\* C6: mmm, counted from the bounds as the caller passed them, is
\* #{xl[i] > -BOUNDMAX} + #{xu[i] < BOUNDMAX} + 2 meq + mineq + m_nlcon, and
\* mmm - m_nlcon is the number of rows of the amat built from the bounds as
\* read; constr has mmm entries: those of the rows of amat in their order
\* (lower bounds, upper bounds, -Aeq, Aeq, Aineq), then the m_nlcon nonlinear
\* ones.
C6_ConstraintCount ==
  /\ (pc \in {"eval", "resolve", "engine", "done"} /\ ~Malformed) =>
       /\ mmm = Cardinality(LowerIdxOf(xl_in)) + Cardinality(UpperIdxOf(xu_in))
                  + 2 * Len(RowsOf(beq)) + Len(RowsOf(bineq)) + m_nlcon
       /\ mmm - m_nlcon = Len(RowsOf(amat))
       /\ RowsOf(amat) = BoundRows(-1) \o LinearRows
       /\ LowerIdxOf(xl_in) = LowerIdx /\ UpperIdxOf(xu_in) = UpperIdx
  /\ (Evaluated /\ ~Malformed) =>
       /\ Len(constr) = mmm
       /\ LET xx == IF xeval = <<>> THEN x ELSE xeval[1] IN
            ButLastK(constr, m_nlcon)
              = moderatecInt(SubVec(MatVec(BoundRows(-1) \o LinearRows, Vals(xx)),
                                    BoundRhs(-1) \o LinearRhs))

\* NaN and out-of-range bounds, inequalities and a nonlinear constraint.
C6_Witness ==
  /\ pc = "engine" /\ ~Malformed
  /\ xl_in = Some(<<NaN, Fl(-1)>>)
  /\ xu_in = Some(<<Fl(BOUNDMAX + 1), Fl(BOUNDMAX)>>)
  /\ Aineq.some /\ Aeq.some /\ m_nlcon = 1
  /\ mmm = 6

\* The points and nonlinear constraint values the violation is computed at.
CstrvCoords == {-BOUNDMAX - 1, 0, 2, BOUNDMAX, BOUNDMAX + 1}

CstrvPoints == {<<a, b>> : a \in CstrvCoords, b \in CstrvCoords}

NlValues(m) == IF m = 0 THEN {<<>>} ELSE {[i \in 1..m |-> -1], [i \in 1..m |-> 2]}

\* max(0, max([amat.p - bvec, nl]))
ComputedCstrv(p, nl) ==
  cstrv_of((IF amat.some THEN SubVec(MatVec(amat.v, p), bvec.v) ELSE <<>>) \o nl)

\* MAXVAL([0, XL - X, X - XU, Aineq.X - Bineq, ABS(Aeq.X - Beq), NLCONSTR(X)]),
\* XL - X and X - XU over the indices in lo and up.
DocumentedOver(lo, up, p, nl) ==
  LET los == Ascending(lo)
      ups == Ascending(up)
  IN MaxSeq(<<0>>
       \o [k \in 1..Len(los) |-> xl.v[los[k]].v - p[los[k]]]
       \o [k \in 1..Len(ups) |-> p[ups[k]] - xu.v[ups[k]].v]
       \o [i \in 1..Len(RowsOf(Aineq)) |-> Dot(Aineq.v[i], p) - bineq.v[i]]
       \o [i \in 1..Len(RowsOf(Aeq)) |-> Abs(Dot(Aeq.v[i], p) - beq.v[i])]
       \o nl)

AllIdx(b) == IF b.some THEN 1..Len(b.v) ELSE {}

DocumentedCstrv(p, nl) == DocumentedOver(AllIdx(xl), AllIdx(xu), p, nl)

InsideSentinel(p) == \A i \in 1..Len(p) : -BOUNDMAX <= p[i] /\ p[i] <= BOUNDMAX

\* amat and bvec are built: they, the bounds and the sizes change no more.
AmatBuilt == pc = "eval" /\ ~Malformed

---------------------------------------------------------------------------
\* Properties of the filter (under SpecFilter)

\* C8 as stated: no two retained entries A, B have A.f <= B.f and
\* A.cstrv <= B.cstrv, and at most maxfilt entries are retained.
C8_NoWeakDomination ==
  /\ \A i, j \in 1..Len(filt) :
       i # j => ~(filt[i].f <= filt[j].f /\ filt[i].cstrv <= filt[j].cstrv)
  /\ Len(filt) <= maxfilt

\* C8, amended: no retained entry dominates another (no worse in both of f
\* and cstrv and better in one; entries equal in both may be retained
\* together), and at most maxfilt entries are retained, for every maxfilt >= 0.
C8_NoDomination ==
  /\ \A i, j \in 1..Len(filt) : i # j => ~Dominates(filt[i], filt[j])
  /\ Len(filt) <= maxfilt

\* A full filter that holds two entries equal in f and cstrv.
C8_Witness ==
  /\ maxfilt = MaxFilt /\ Len(filt) = maxfilt
  /\ \E i, j \in 1..Len(filt) :
       i # j /\ filt[i].f = filt[j].f /\ filt[i].cstrv = filt[j].cstrv
  /\ \E i, j \in 1..Len(filt) : filt[i].f < filt[j].f /\ filt[i].cstrv > filt[j].cstrv

---------------------------------------------------------------------------
\* Properties of the main loop (under SpecLoop)

\* A condition listed before MAXFUN_REACHED holds.
EarlierExit == (RLe(radius, rhoend) /\ "noreduce" \in flags) \/ "ftarget" \in flags

\* C9: nf never exceeds maxfun; a step from ITERATE to TR_STEP or
\* GEOMETRY_STEP adds exactly one to nf and one to ntr, every other step adds
\* one to nf (an evaluation of INIT) or nothing and leaves ntr alone; and the
\* loop ends with MAXFUN_REACHED exactly when it ends with nf = maxfun (the
\* next evaluation would exceed maxfun) and no condition listed earlier holds.
C9_EvaluationAccounting ==
  /\ [](/\ nf <= maxfun
        /\ lstate = "TERMINATED" =>
             (info = "MAXFUN_REACHED" <=> (nf >= maxfun /\ ~EarlierExit)))
  /\ [][/\ (lstate = "ITERATE" /\ lstate' \in {"TR_STEP", "GEOMETRY_STEP"})
             => (nf' = nf + 1 /\ ntr' = ntr + 1)
        /\ lstate \notin {"ITERATE", "INIT"} => (nf' = nf /\ ntr' = ntr)
        /\ lstate = "INIT" => (nf' = nf + 1 /\ ntr' = ntr)
        /\ (lstate = "RECORD" /\ lstate' = "ITERATE") => nf < maxfun]_vars

\* The loop ended with MAXFUN_REACHED after maxfun evaluations.
C9_Witness ==
  /\ lstate = "TERMINATED" /\ info = "MAXFUN_REACHED"
  /\ nf = maxfun /\ ntr = maxfun - (nvar + 1) /\ ntr >= 2

---------------------------------------------------------------------------
\* The defaults of the optional scalars

\* The caller wrote the argument a / left it out of the call.
Written(a) == a \in DOMAIN kwargs

\* The defaults are resolved and preproc is not called yet.
Resolved == pc = "preproc"

\* C11: when the caller does not write maxhist, the maxhist cobyla resolves is
\* the resolved maxfun, whatever maxfun the caller wrote, and also when maxfun
\* is left to its default.
C11_MaxhistIsMaxfun ==
  (Resolved /\ ~Written("maxhist")) => params.maxhist.v = params.maxfun.v

\* A value strictly between 0 and 1.
InUnit(a) == present(a) /\ Positive(a.v) /\ BelowOne(a.v)

\* The caller wrote exactly one of eta1 and eta2, strictly between 0 and 1.
OneEtaWritten ==
  \/ Written("eta1") /\ ~Written("eta2") /\ InUnit(kwargs.eta1)
  \/ Written("eta2") /\ ~Written("eta1") /\ InUnit(kwargs.eta2)

\* C12: when the caller writes exactly one of eta1 and eta2, strictly between
\* 0 and 1, and leaves the other at the default of the signature, the resolved
\* pair has 0 < eta1 <= eta2 < 1.
C12_EtaOrdered ==
  (Resolved /\ OneEtaWritten) =>
    /\ Positive(params.eta1.v)
    /\ BelowOne(params.eta2.v)
    /\ ~params.eta2.v.nan
    /\ RLe(params.eta1.v.v, params.eta2.v.v)

\* A finite positive value.
ValidRadius(a) == present(a) /\ isfiniteReal(a.v) /\ Positive(a.v)

\* rhobeg >= rhoend > 0 of the resolved pair.
RadiiOrdered ==
  /\ Positive(params.rhoend.v)
  /\ ~params.rhobeg.v.nan
  /\ RLe(params.rhoend.v.v, params.rhobeg.v.v)

\* The values the documentation gives to an absent rhobeg and an absent rhoend.
RadiiAsDocumented ==
  /\ ~Written("rhobeg") =>
       params.rhobeg.v =
         IF Written("rhoend")
           THEN LET t == RMul(<<10, 1>>, kwargs.rhoend.v.v)
                IN  Real(IF RLt(RHOBEG_DEFAULT, t) THEN t ELSE RHOBEG_DEFAULT)
           ELSE Real(RHOBEG_DEFAULT)
  /\ ~Written("rhoend") =>
       params.rhoend.v =
         LET t == RMul(RDiv(RHOEND_DEFAULT, RHOBEG_DEFAULT), params.rhobeg.v.v)
             m == IF RLt(t, RHOEND_DEFAULT) THEN t ELSE RHOEND_DEFAULT
         IN  Real(IF RLt(m, EPS) THEN EPS ELSE m)

\* The caller wrote a finite positive rhobeg alone, a finite positive rhoend
\* alone, or neither.
OnlyRhobeg == Written("rhobeg") /\ ~Written("rhoend") /\ ValidRadius(kwargs.rhobeg)

OnlyRhoend == Written("rhoend") /\ ~Written("rhobeg") /\ ValidRadius(kwargs.rhoend)

NoRadius == ~Written("rhobeg") /\ ~Written("rhoend")

\* C13, as stated: when the caller writes exactly one of rhobeg and rhoend,
\* finite and positive, or neither, the resolved pair has rhobeg >= rhoend > 0,
\* with the documented values for the absent ones.
C13_RadiiOrdered ==
  (Resolved /\ (OnlyRhobeg \/ OnlyRhoend \/ NoRadius)) =>
    RadiiOrdered /\ RadiiAsDocumented

\* C13, amended: the same, for a rhobeg written alone that is at least EPS.
C13_RadiiOrderedAboveEps ==
  (Resolved /\ \/ OnlyRhobeg /\ RLe(EPS, kwargs.rhobeg.v.v)
               \/ OnlyRhoend
               \/ NoRadius) =>
    RadiiOrdered /\ RadiiAsDocumented

\* rhoend = 3 written alone: rhobeg is resolved to 30.
C13_Witness ==
  /\ Resolved
  /\ kwargs = [rhoend |-> Some(Real(<<3, 1>>))]
  /\ params.rhobeg = Some(Real(<<30, 1>>))
  /\ params.rhoend = Some(Real(<<3, 1>>))

=============================================================================
